---- MODULE Spec2Model ----
(***************************************************************************)
(* A model of the Habit-flow backend: the Progress ledger (one entry per   *)
(* user, habit and calendar day), the handlers that write it, and the      *)
(* streak and completion-rate calculators of the Habit and Progress models.*)
(***************************************************************************)
EXTENDS Integers, Sequences, FiniteSets, TLC

\* ------------------------------------------------------------------ bounds
MaxClock == 2       \* the clock of the handler specifications runs 0..MaxClock
MaxEntries == 2     \* the ledger of the handler specifications holds at most this many entries
MaxDay == 2         \* the calculators see the calendar days 0..MaxDay
MaxDuration == 2    \* habit durations 1..MaxDuration (the schema allows 1..365)

\* --------------------------------------------------------------- constants
\* one calendar day, in clock ticks (1000 * 60 * 60 * 24 ms in the source)
DayMs == 2
\* null: a field that holds no date or number
NULL == -1
\* .limit(365) of getCurrentStreak
StreakLimit == 365

Users == {"u1", "u2"}
HabitIds == {"h1", "h2"}
GroupIds == {"g1"}
\* a request body without habitId
NoId == "none"

\* tz: the offset of the server's time zone from UTC, in clock ticks east of
\* UTC; the clock now counts local time, so that local midnights are the
\* multiples of DayMs
VARIABLES tz, now, users, habits, groups, progress, calls, res

\* The state of the dashboard page in the browser: loggingProgress and
\* completedHabits are its React state of the same names, timers holds the
\* habit of each pending setTimeout callback of handleMarkComplete in the
\* order they were started, and notified counts the "Habit Completed!"
\* notifications shown for each habit.
VARIABLES loggingProgress, completedHabits, timers, notified

dashboard == <<loggingProgress, completedHabits, timers, notified>>

vars == <<dashboard, tz, now, users, habits, groups, progress, calls, res>>

\* the dashboard page is not open
DashboardClosed ==
  /\ loggingProgress = NoId
  /\ completedHabits = {}
  /\ timers = <<>>
  /\ notified = [h \in HabitIds |-> 0]

\* ----------------------------------------------------------------- helpers
Min(a, b) == IF a < b THEN a ELSE b

Range(s) == {s[i] : i \in 1..Len(s)}

\* $pull / Array.filter: the sequence without the elements equal to x
RECURSIVE Pull(_, _)
Pull(s, x) ==
  IF s = <<>> THEN <<>>
  ELSE IF Head(s) = x THEN Pull(Tail(s), x)
  ELSE <<Head(s)>> \o Pull(Tail(s), x)

\* d.setHours(0, 0, 0, 0): the start of d's calendar day
StartOfDay(t) == t - (t % DayMs)

\* ------------------------------------------------------- Progress documents
\* A Progress document is [user, habit, date, completed, completedAt]; its _id
\* is its position in the collection. The payload fields value, notes, streak
\* and isLateEntry are written and never read by the code modelled here, and
\* are left out.

\* pre('save') of the Progress schema, run at time t
PreSaveNoClear(doc, t) ==
  LET d1 == IF doc.completed /\ doc.completedAt = NULL
            THEN [doc EXCEPT !.completedAt = t] ELSE doc
  IN [d1 EXCEPT !.date = StartOfDay(d1.date)]

PreSave(doc, t) ==
  LET d1 == IF doc.completed /\ doc.completedAt = NULL
            THEN [doc EXCEPT !.completedAt = t] ELSE doc
      d2 == IF ~d1.completed /\ d1.completedAt # NULL
            THEN [d1 EXCEPT !.completedAt = NULL] ELSE d1
  IN [d2 EXCEPT !.date = StartOfDay(d2.date)]

\* the unique index { habit, user, date }: may doc be stored at position at
\* (0: as a new document) without a duplicate key?
UniqueOkNoIndex(coll, doc, at) == TRUE

UniqueOk(coll, doc, at) ==
  \A i \in 1..Len(coll) :
    i # at => ~(coll[i].habit = doc.habit /\ coll[i].user = doc.user
                /\ coll[i].date = doc.date)

\* findOne({ user, habit, date: { $gte: targetDate, $lt: targetDate + 1 day } }):
\* the position of the first match, 0 when there is none
FindOneByDayGt(coll, u, h, targetDate) ==
  LET hits == {i \in 1..Len(coll) :
                 /\ coll[i].user = u /\ coll[i].habit = h
                 /\ coll[i].date > targetDate
                 /\ coll[i].date < targetDate + DayMs}
  IN IF hits = {} THEN 0 ELSE CHOOSE i \in hits : \A j \in hits : i <= j

FindOneByDay(coll, u, h, targetDate) ==
  LET hits == {i \in 1..Len(coll) :
                 /\ coll[i].user = u /\ coll[i].habit = h
                 /\ coll[i].date >= targetDate
                 /\ coll[i].date < targetDate + DayMs}
  IN IF hits = {} THEN 0 ELSE CHOOSE i \in hits : \A j \in hits : i <= j

\* findOne({ user, habit, date: today, completed: true }) of markCompleteToday
FindCompletedOnNever(coll, u, h, day) == 0

FindCompletedOn(coll, u, h, day) ==
  LET hits == {i \in 1..Len(coll) :
                 /\ coll[i].user = u /\ coll[i].habit = h
                 /\ coll[i].date = day /\ coll[i].completed}
  IN IF hits = {} THEN 0 ELSE CHOOSE i \in hits : \A j \in hits : i <= j

\* the update branch of createOrUpdate, before save()
EditEntry(doc, completed, t) ==
  LET e1 == [doc EXCEPT !.completed = completed]
  IN IF completed /\ e1.completedAt = NULL THEN [e1 EXCEPT !.completedAt = t]
     ELSE IF ~completed THEN [e1 EXCEPT !.completedAt = NULL]
     ELSE e1

\* the insert branch of createOrUpdate, before save()
NewEntry(u, h, targetDate, completed, t) ==
  [user |-> u, habit |-> h, date |-> targetDate, completed |-> completed,
   completedAt |-> IF completed THEN t ELSE NULL]

\* document.save() of a loaded document: the paths that differ from the loaded
\* values are written to the stored document
SaveLoaded(stored, loaded, edited) ==
  [user |-> stored.user, habit |-> stored.habit,
   date |-> IF edited.date # loaded.date THEN edited.date ELSE stored.date,
   completed |-> IF edited.completed # loaded.completed
                 THEN edited.completed ELSE stored.completed,
   completedAt |-> IF edited.completedAt # loaded.completedAt
                   THEN edited.completedAt ELSE stored.completedAt]

\* Progress.createOrUpdate run without interruption at time t: the collection
\* afterwards, the position of the entry, and whether the write was accepted
CreateOrUpdate(coll, u, h, date, completed, t) ==
  LET targetDate == StartOfDay(date)
      i == FindOneByDay(coll, u, h, targetDate)
  IN IF i # 0
     THEN LET edited == PreSave(EditEntry(coll[i], completed, t), t)
          IN [ok |-> TRUE, id |-> i,
              coll |-> [coll EXCEPT ![i] = SaveLoaded(coll[i], coll[i], edited)]]
     ELSE LET doc == PreSave(NewEntry(u, h, targetDate, completed, t), t)
          IN IF UniqueOk(coll, doc, 0)
             THEN [ok |-> TRUE, id |-> Len(coll) + 1, coll |-> Append(coll, doc)]
             ELSE [ok |-> FALSE, id |-> 0, coll |-> coll]

\* ------------------------------------------------------------ authorization
\* habit.creator.toString() === req.user.userId.toString()
IsCreatorAnyone(h, u) == TRUE

IsCreator(h, u) == habits[h].creator = u

\* Group.find({ habits: habitId, members: userId, isActive: true }).length > 0
IsMemberAnyGroup(h, u) ==
  \E g \in GroupIds :
    /\ groups[g].exists
    /\ h \in Range(groups[g].habits)
    /\ u \in Range(groups[g].members)

IsMember(h, u) ==
  \E g \in GroupIds :
    /\ groups[g].exists
    /\ h \in Range(groups[g].habits)
    /\ u \in Range(groups[g].members)
    /\ groups[g].isActive

\* the answer to the last request: the handler and the HTTP status (0: none sent)
Response(op, status) == [op |-> op, status |-> status]

\* -------------------------------------------------- handlers, run one by one
\* POST /api/progress/log; date = NULL: the body carries no date
LogProgress(u, h, date, completed) ==
  /\ UNCHANGED <<dashboard, tz, now, users, habits, groups, calls>>
  /\ IF h = NoId
     THEN /\ res' = Response("logProgress", 400)
          /\ UNCHANGED progress
     ELSE IF ~habits[h].exists \/ ~habits[h].isActive
     THEN /\ res' = Response("logProgress", 404)
          /\ UNCHANGED progress
     ELSE IF ~IsCreator(h, u) /\ ~IsMember(h, u)
     THEN /\ res' = Response("logProgress", 403)
          /\ UNCHANGED progress
     ELSE LET targetDate == StartOfDay(IF date # NULL THEN date ELSE now)
              r == CreateOrUpdate(progress, u, h, targetDate, completed, now)
          IN /\ Len(r.coll) <= MaxEntries
             /\ progress' = r.coll
             /\ res' = Response("logProgress", IF r.ok THEN 200 ELSE 500)

\* POST /api/progress/complete-today
MarkCompleteToday(u, h) ==
  /\ UNCHANGED <<dashboard, tz, now, users, habits, groups, calls>>
  /\ IF h = NoId
     THEN /\ res' = Response("markCompleteToday", 400)
          /\ UNCHANGED progress
     ELSE IF ~habits[h].exists \/ ~habits[h].isActive
     THEN /\ res' = Response("markCompleteToday", 404)
          /\ UNCHANGED progress
     ELSE IF ~IsCreator(h, u) /\ ~IsMember(h, u)
     THEN /\ res' = Response("markCompleteToday", 403)
          /\ UNCHANGED progress
     ELSE IF FindCompletedOn(progress, u, h, StartOfDay(now)) # 0
     THEN /\ res' = Response("markCompleteToday", 400)
          /\ UNCHANGED progress
     ELSE LET r == CreateOrUpdate(progress, u, h, StartOfDay(now), TRUE, now)
          IN /\ Len(r.coll) <= MaxEntries
             /\ progress' = r.coll
             \* the catch block reads an undeclared name (err): a storage
             \* error leaves the request without a response (status 0)
             /\ res' = Response("markCompleteToday", IF r.ok THEN 200 ELSE 0)

\* PUT /api/progress/:progressId/toggle
ToggleProgress(u, pid) ==
  /\ UNCHANGED <<dashboard, tz, now, users, habits, groups, calls>>
  /\ IF pid > Len(progress)
     THEN /\ res' = Response("toggleProgress", 404)
          /\ UNCHANGED progress
     ELSE IF progress[pid].user # u
     THEN /\ res' = Response("toggleProgress", 403)
          /\ UNCHANGED progress
     ELSE LET doc == progress[pid]
              edited == PreSave([doc EXCEPT !.completed = ~doc.completed], now)
          IN /\ progress' = [progress EXCEPT ![pid] = SaveLoaded(doc, doc, edited)]
             /\ res' = Response("toggleProgress", 200)

\* Progress.prototype.markCompleted() on the stored entry pid
ProgressMarkCompleted(pid) ==
  /\ pid <= Len(progress)
  /\ UNCHANGED <<dashboard, tz, now, users, habits, groups, calls>>
  /\ LET doc == progress[pid]
         e1 == [doc EXCEPT !.completed = TRUE, !.completedAt = now]
     IN /\ progress' = [progress EXCEPT ![pid] = SaveLoaded(doc, doc, PreSave(e1, now))]
        /\ res' = Response("Progress.markCompleted", 200)

\* Progress.prototype.markIncomplete() on the stored entry pid
ProgressMarkIncomplete(pid) ==
  /\ pid <= Len(progress)
  /\ UNCHANGED <<dashboard, tz, now, users, habits, groups, calls>>
  /\ LET doc == progress[pid]
         e1 == [doc EXCEPT !.completed = FALSE, !.completedAt = NULL]
     IN /\ progress' = [progress EXCEPT ![pid] = SaveLoaded(doc, doc, PreSave(e1, now))]
        /\ res' = Response("Progress.markIncomplete", 200)

\* DELETE /api/habits/:id
DeleteHabitPurge(u, h) ==
  /\ UNCHANGED <<dashboard, tz, now, calls>>
  /\ IF ~habits[h].exists
     THEN /\ res' = Response("deleteHabit", 404)
          /\ UNCHANGED <<users, habits, groups, progress>>
     ELSE IF habits[h].creator # u
     THEN /\ res' = Response("deleteHabit", 403)
          /\ UNCHANGED <<users, habits, groups, progress>>
     ELSE /\ habits' = [habits EXCEPT ![h].exists = FALSE, ![h].isActive = FALSE]
          /\ progress' = SelectSeq(progress, LAMBDA e : e.habit # h)
          /\ users' = [users EXCEPT ![u].createdHabits = Pull(@, h)]
          /\ groups' = [g \in GroupIds |->
                          [groups[g] EXCEPT !.habits = Pull(@, h)]]
          /\ res' = Response("deleteHabit", 200)

DeleteHabit(u, h) ==
  /\ UNCHANGED <<dashboard, tz, now, progress, calls>>
  /\ IF ~habits[h].exists
     THEN /\ res' = Response("deleteHabit", 404)
          /\ UNCHANGED <<users, habits, groups>>
     ELSE IF habits[h].creator # u
     THEN /\ res' = Response("deleteHabit", 403)
          /\ UNCHANGED <<users, habits, groups>>
     ELSE /\ habits' = [habits EXCEPT ![h].isActive = FALSE]
          /\ users' = [users EXCEPT ![u].createdHabits = Pull(@, h)]
          /\ groups' = [g \in GroupIds |->
                          [groups[g] EXCEPT !.habits = Pull(@, h)]]
          /\ res' = Response("deleteHabit", 200)

\* the clock advances
Tick ==
  /\ now < MaxClock
  /\ now' = now + 1
  /\ UNCHANGED <<dashboard, tz, users, habits, groups, progress, calls, res>>

\* ------------------------------------------- the handlers run one at a time
NoHabit == [exists |-> FALSE, creator |-> NoId, isActive |-> FALSE,
            createdAt |-> 0, duration |-> 1, completionDates |-> <<>>]

NoResponse == Response("none", 0)

\* a habit document as createHabit stores it
HabitDoc(creator, createdAt, duration, completionDates) ==
  [exists |-> TRUE, creator |-> creator, isActive |-> TRUE,
   createdAt |-> createdAt, duration |-> duration,
   completionDates |-> completionDates]

\* the groups and users after u1 has created habit h1 and group g1, the members
\* ms have joined g1, the habits hs were added to it, and g1 was deleted unless
\* act
SetupGroup(ms, hs, act) ==
  /\ groups = [g \in GroupIds |->
                 [exists |-> TRUE, creator |-> "u1", isActive |-> act,
                  members |-> ms, habits |-> hs]]
  /\ users = [u \in Users |->
                [createdHabits |-> IF u = "u1" THEN <<"h1">> ELSE <<>>,
                 joinedGroups |-> IF act /\ u \in Range(ms) THEN <<"g1">> ELSE <<>>]]

Setup(ms, hs, act) ==
  /\ habits = [h \in HabitIds |->
                 IF h = "h1" THEN HabitDoc("u1", 0, 1, <<>>) ELSE NoHabit]
  /\ SetupGroup(ms, hs, act)

\* the ledger under the requests of the creator u1 and the group member u2 for
\* habit h1, one request at a time
Init ==
  /\ DashboardClosed
  /\ tz = 0
  /\ now = 0
  /\ Setup(<<"u1", "u2">>, <<"h1">>, TRUE)
  /\ progress = <<>>
  /\ calls = <<>>
  /\ res = NoResponse

Next ==
  \/ \E u \in Users, d \in (0..MaxClock) \cup {NULL}, c \in BOOLEAN :
       LogProgress(u, "h1", d, c)
  \/ \E u \in Users : MarkCompleteToday(u, "h1")
  \/ \E u \in Users, pid \in 1..(MaxEntries + 1) : ToggleProgress(u, pid)
  \/ \E pid \in 1..MaxEntries : ProgressMarkCompleted(pid)
  \/ \E pid \in 1..MaxEntries : ProgressMarkIncomplete(pid)
  \/ Tick

Spec == Init /\ [][Next]_vars

\* ------------------------------------ who may write the ledger (any request)
InitAuth ==
  /\ DashboardClosed
  /\ tz = 0
  /\ now = 0
  /\ \E ms \in {<<"u1">>, <<"u1", "u2">>}, hs \in {<<>>, <<"h1">>}, act \in BOOLEAN :
       Setup(ms, hs, act)
  /\ progress = <<>>
  /\ calls = <<>>
  /\ res = NoResponse

\* the dates of the requests: none (today), a time of today, the next day
AuthDates == {NULL, 1, DayMs}

NextAuth ==
  \/ \E u \in Users, h \in HabitIds \cup {NoId}, d \in AuthDates, c \in BOOLEAN :
       LogProgress(u, h, d, c)
  \/ \E u \in Users, h \in HabitIds \cup {NoId} : MarkCompleteToday(u, h)
  \/ \E u \in Users, h \in HabitIds : DeleteHabit(u, h)

SpecAuth == InitAuth /\ [][NextAuth]_vars

\* ------------------------------- two requests in flight at the same time
\* Each await of a handler is a step: the authorization reads (Begin), the
\* findOne of markCompleteToday (CheckToday), the findOne of createOrUpdate
\* (FindOne) and its save() or create() (Write).
Reqs == {"r1", "r2"}

\* the dates of the racing requests: none (today) or a time of today
RaceDates == {NULL, 1}

\* no document
NoDoc == [user |-> NoId, habit |-> NoId, date |-> 0, completed |-> FALSE,
          completedAt |-> NULL]

Idle == [pc |-> "idle", op |-> "none", user |-> NoId, habit |-> NoId,
         date |-> 0, completed |-> FALSE, found |-> 0, loaded |-> NoDoc,
         status |-> 0]

Done(c, status) == [c EXCEPT !.pc = "done", !.status = status]

\* the handler up to its first read of the ledger
Begin(r, op, u, h, date, completed) ==
  /\ calls[r].pc = "idle"
  /\ op = "markCompleteToday" => (date = NULL /\ completed)
  /\ UNCHANGED <<dashboard, tz, now, users, habits, groups, progress, res>>
  /\ LET c == [Idle EXCEPT !.op = op, !.user = u, !.habit = h,
                           !.completed = completed,
                           !.date = StartOfDay(IF date # NULL THEN date ELSE now)]
     IN calls' = [calls EXCEPT ![r] =
          IF h = NoId THEN Done(c, 400)
          ELSE IF ~habits[h].exists \/ ~habits[h].isActive THEN Done(c, 404)
          ELSE IF ~IsCreator(h, u) /\ ~IsMember(h, u) THEN Done(c, 403)
          ELSE [c EXCEPT !.pc = IF op = "markCompleteToday"
                                THEN "checkToday" ELSE "findOne"]]

\* markCompleteToday: Progress.findOne({ user, habit, date: today, completed: true })
CheckToday(r) ==
  /\ calls[r].pc = "checkToday"
  /\ UNCHANGED <<dashboard, tz, now, users, habits, groups, progress, res>>
  /\ LET c == calls[r]
     IN calls' = [calls EXCEPT ![r] =
          IF FindCompletedOn(progress, c.user, c.habit, c.date) # 0
          THEN Done(c, 400)
          ELSE [c EXCEPT !.pc = "findOne"]]

\* createOrUpdate: the findOne; the request keeps the document it has loaded
FindOne(r) ==
  /\ calls[r].pc = "findOne"
  /\ UNCHANGED <<dashboard, tz, now, users, habits, groups, progress, res>>
  /\ LET c == calls[r]
         i == FindOneByDay(progress, c.user, c.habit, StartOfDay(c.date))
     IN calls' = [calls EXCEPT ![r] =
          [c EXCEPT !.pc = "write", !.found = i,
                    !.loaded = IF i # 0 THEN progress[i] ELSE NoDoc]]

\* what the caller gets when createOrUpdate throws: logProgress catches the
\* error and sends 500; the catch block of markCompleteToday reads the
\* undeclared name err and throws again, so that the handler's promise is
\* rejected: either no response is sent (0) or, where the framework forwards
\* rejected handlers to the error middleware of server.js, that sends 500
OnStorageError(op) == IF op = "logProgress" THEN {500} ELSE {0, 500}

\* createOrUpdate: existingEntry.save(), or this.create() under the unique index
Write(r) ==
  /\ calls[r].pc = "write"
  /\ UNCHANGED <<dashboard, tz, now, users, habits, groups, res>>
  /\ LET c == calls[r]
     IN IF c.found # 0
        THEN LET edited == PreSave(EditEntry(c.loaded, c.completed, now), now)
             IN /\ progress' = [progress EXCEPT ![c.found] =
                                  SaveLoaded(progress[c.found], c.loaded, edited)]
                /\ calls' = [calls EXCEPT ![r] = Done(c, 200)]
        ELSE LET doc == PreSave(NewEntry(c.user, c.habit, StartOfDay(c.date),
                                         c.completed, now), now)
             IN IF UniqueOk(progress, doc, 0)
                THEN /\ progress' = Append(progress, doc)
                     /\ calls' = [calls EXCEPT ![r] = Done(c, 200)]
                ELSE /\ UNCHANGED progress
                     /\ \E status \in OnStorageError(c.op) :
                          calls' = [calls EXCEPT ![r] = Done(c, status)]

\* the ledger at the start: empty, or with an entry of u1 for today that an
\* earlier request has written
InitRace ==
  /\ DashboardClosed
  /\ tz = 0
  /\ now = 0
  /\ Setup(<<"u1", "u2">>, <<"h1">>, TRUE)
  /\ \E c \in BOOLEAN :
       progress \in {<<>>, <<PreSave(NewEntry("u1", "h1", 0, c, 0), 0)>>}
  /\ calls = [r \in Reqs |-> Idle]
  /\ res = NoResponse

NextRace ==
  \/ \E r \in Reqs, op \in {"logProgress", "markCompleteToday"}, u \in Users,
        d \in RaceDates, c \in BOOLEAN : Begin(r, op, u, "h1", d, c)
  \/ \E r \in Reqs : CheckToday(r)
  \/ \E r \in Reqs : FindOne(r)
  \/ \E r \in Reqs : Write(r)

SpecRace == InitRace /\ [][NextRace]_vars

\* ------------------------------------------- streaks and completion rates
\* a rate in percent, as the exact fraction num / den
Pct(num, den) == [num |-> num, den |-> den]

\* total > 0 ? (completed / total) * 100 : 0
RateOf(completed, total) ==
  IF total > 0 THEN Pct(completed * 100, total) ELSE Pct(0, 1)

\* Math.round(x)
Round(r) == Pct((2 * r.num + r.den) \div (2 * r.den), 1)

\* Math.round(x * 100) / 100
Round2(r) == Pct((200 * r.num + r.den) \div (2 * r.den), 100)

\* the descending sequence s with x inserted in its place
RECURSIVE InsertDesc(_, _)
InsertDesc(s, x) ==
  IF s = <<>> THEN <<x>>
  ELSE IF x >= Head(s) THEN <<x>> \o s
  ELSE <<Head(s)>> \o InsertDesc(Tail(s), x)

\* dates.sort((a, b) => b - a)
RECURSIVE SortDesc(_)
SortDesc(s) == IF s = <<>> THEN <<>> ELSE InsertDesc(SortDesc(Tail(s)), Head(s))

\* the loop of the currentStreak virtual over the sorted dates
RECURSIVE HabitStreakLoop(_, _, _)
HabitStreakLoop(dates, checkDate, streak) ==
  IF dates = <<>> THEN streak
  ELSE LET completionDay == StartOfDay(Head(dates))
       IN IF completionDay = checkDate
          THEN HabitStreakLoop(Tail(dates), checkDate - DayMs, streak + 1)
          ELSE IF completionDay = checkDate + DayMs
          THEN HabitStreakLoop(Tail(dates), checkDate - DayMs, streak + 1)
          ELSE streak

\* the currentStreak virtual of a habit document, read at time t
CurrentStreak(habit, t) ==
  IF Len(habit.completionDates) = 0 THEN 0
  ELSE HabitStreakLoop(SortDesc(habit.completionDates), StartOfDay(t), 0)

\* the completionRate virtual of a habit document, read at time t
CompletionRateNoClamp(habit, t) ==
  IF Len(habit.completionDates) = 0 THEN Pct(0, 1)
  ELSE LET daysSinceCreation == ((t - habit.createdAt) \div DayMs) + 1
           expectedCompletions == Min(daysSinceCreation, habit.duration)
       IN IF expectedCompletions = 0 THEN Pct(0, 1)
          ELSE Pct(Len(habit.completionDates) * 100, expectedCompletions)

CompletionRateWholeDays(habit, t) ==
  IF Len(habit.completionDates) = 0 THEN Pct(0, 1)
  ELSE LET daysSinceCreation == (t - habit.createdAt) \div DayMs
           expectedCompletions == Min(daysSinceCreation, habit.duration)
       IN IF expectedCompletions = 0 THEN Pct(0, 1)
          ELSE IF Len(habit.completionDates) * 100 < 100 * expectedCompletions
          THEN Pct(Len(habit.completionDates) * 100, expectedCompletions)
          ELSE Pct(100, 1)

CompletionRate(habit, t) ==
  IF Len(habit.completionDates) = 0 THEN Pct(0, 1)
  ELSE LET daysSinceCreation == ((t - habit.createdAt) \div DayMs) + 1
           expectedCompletions == Min(daysSinceCreation, habit.duration)
       IN IF expectedCompletions = 0 THEN Pct(0, 1)
          ELSE IF Len(habit.completionDates) * 100 < 100 * expectedCompletions
          THEN Pct(Len(habit.completionDates) * 100, expectedCompletions)
          ELSE Pct(100, 1)

\* find(query).sort({ date: -1 }): the matching entries, latest date first
RECURSIVE InsertByDate(_, _)
InsertByDate(s, e) ==
  IF s = <<>> THEN <<e>>
  ELSE IF e.date >= Head(s).date THEN <<e>> \o s
  ELSE <<Head(s)>> \o InsertByDate(Tail(s), e)

RECURSIVE SortByDateDesc(_)
SortByDateDesc(s) ==
  IF s = <<>> THEN <<>> ELSE InsertByDate(SortByDateDesc(Tail(s)), Head(s))

\* .limit(n)
Limit(s, n) == IF Len(s) <= n THEN s ELSE SubSeq(s, 1, n)

\* find({ user, habit, date: { $gte: from, $lte: to } }); NoId, NULL: no condition
FindEntries(coll, u, h, from, to) ==
  SelectSeq(coll, LAMBDA e :
    /\ e.user = u
    /\ h = NoId \/ e.habit = h
    /\ from = NULL \/ e.date >= from
    /\ to = NULL \/ e.date <= to)

CountCompleted(s) == Len(SelectSeq(s, LAMBDA e : e.completed))

\* the loop of Progress.getCurrentStreak over the sorted entries
RECURSIVE ProgressStreakLoop(_, _, _)
ProgressStreakLoop(entries, today, streak) ==
  IF entries = <<>> THEN streak
  ELSE LET daysDiff == (today - StartOfDay(Head(entries).date)) \div DayMs
       IN IF daysDiff = streak /\ Head(entries).completed
          THEN ProgressStreakLoop(Tail(entries), today, streak + 1)
          ELSE streak

\* Progress.getCurrentStreak(userId, habitId), run at time t
GetCurrentStreak(coll, u, h, t) ==
  ProgressStreakLoop(
    Limit(SortByDateDesc(FindEntries(coll, u, h, NULL, NULL)), StreakLimit),
    StartOfDay(t), 0)

\* Progress.calculateCompletionRate(userId, habitId, days), run at time t
CalculateCompletionRate(coll, u, h, days, t) ==
  LET inRange == FindEntries(coll, u, h, t - days * DayMs, t)
  IN RateOf(CountCompleted(inRange), Len(inRange))

\* the answer of a handler that reports statistics to user u: streak and rate
\* map a habit id, or "all" for a figure over all habits, to the reported value
Answer(op, u, streak, rate) ==
  [op |-> op, status |-> 200, user |-> u, streak |-> streak, rate |-> rate]

Nothing == [k \in {} |-> 0]

\* GET /api/habits: the caller's active habits with their virtuals
GetHabits(u) ==
  /\ UNCHANGED <<dashboard, tz, now, users, habits, groups, progress, calls>>
  /\ LET mine == {h \in HabitIds :
                    habits[h].exists /\ habits[h].creator = u /\ habits[h].isActive}
     IN res' = Answer("getHabits", u,
                      [h \in mine |-> CurrentStreak(habits[h], now)],
                      [h \in mine |-> CompletionRate(habits[h], now)])

\* GET /api/progress/habit/:habitId?startDate&endDate&limit
GetHabitProgress(u, h, startDate, endDate, limit) ==
  /\ UNCHANGED <<dashboard, tz, now, users, habits, groups, progress, calls>>
  /\ IF ~habits[h].exists
     THEN res' = Response("getHabitProgress", 404)
     ELSE IF ~IsCreator(h, u) /\ ~IsMember(h, u)
     THEN res' = Response("getHabitProgress", 403)
     ELSE LET progressEntries ==
                Limit(SortByDateDesc(FindEntries(progress, u, h, startDate, endDate)),
                      limit)
              completionRate ==
                RateOf(CountCompleted(progressEntries), Len(progressEntries))
          IN res' = Answer("getHabitProgress", u,
                           h :> GetCurrentStreak(progress, u, h, now),
                           h :> Round2(completionRate))

\* GET /api/progress/daily?date
GetDailyProgress(u, date) ==
  /\ UNCHANGED <<dashboard, tz, now, users, habits, groups, progress, calls>>
  /\ LET targetDate == StartOfDay(IF date # NULL THEN date ELSE now)
         progressEntries ==
           SelectSeq(progress, LAMBDA e :
             e.user = u /\ e.date >= targetDate /\ e.date < targetDate + DayMs)
     IN res' = Answer("getDailyProgress", u, Nothing,
                      "all" :> IF Len(progressEntries) > 0
                               THEN Round(RateOf(CountCompleted(progressEntries),
                                                 Len(progressEntries)))
                               ELSE Pct(0, 1))

\* GET /api/progress/stats?days
GetProgressStats(u, days) ==
  /\ UNCHANGED <<dashboard, tz, now, users, habits, groups, progress, calls>>
  /\ LET progressEntries == FindEntries(progress, u, NoId, now - days * DayMs, now)
         seen == {progressEntries[i].habit : i \in 1..Len(progressEntries)}
         of(h) == SelectSeq(progressEntries, LAMBDA e : e.habit = h)
         overall == RateOf(CountCompleted(progressEntries), Len(progressEntries))
     IN res' = Answer("getProgressStats", u, Nothing,
                      [k \in seen \cup {"all"} |->
                         IF k = "all" THEN Round2(overall)
                         ELSE Round(RateOf(CountCompleted(of(k)), Len(of(k))))])

RECURSIVE MaxOf(_)
MaxOf(S) ==
  IF S = {} THEN 0
  ELSE LET x == CHOOSE y \in S : TRUE
           m == MaxOf(S \ {x})
       IN IF x > m THEN x ELSE m

\* GET /api/stats/dashboard
GetDashboardStats(u) ==
  /\ UNCHANGED <<dashboard, tz, now, users, habits, groups, progress, calls>>
  /\ LET activeHabits == {h \in HabitIds :
                            habits[h].exists /\ habits[h].creator = u
                            /\ habits[h].isActive}
         progressEntries == FindEntries(progress, u, NoId, now - 7 * DayMs, now)
     IN res' = Answer("getDashboardStats", u,
                      "all" :> MaxOf({GetCurrentStreak(progress, u, h, now) :
                                        h \in activeHabits}),
                      "all" :> IF Len(progressEntries) > 0
                               THEN Round(RateOf(CountCompleted(progressEntries),
                                                 Len(progressEntries)))
                               ELSE Pct(0, 1))

\* a call of Progress.calculateCompletionRate(userId, habitId, days)
ProgressCalculateCompletionRate(u, h, days) ==
  /\ UNCHANGED <<dashboard, tz, now, users, habits, groups, progress, calls>>
  /\ res' = Answer("Progress.calculateCompletionRate", u, Nothing,
                   h :> CalculateCompletionRate(progress, u, h, days, now))

\* the start of each calendar day 0..MaxDay
CalcDays == {d * DayMs : d \in 0..MaxDay}

\* the elements of a set of numbers in ascending order
RECURSIVE Ascending(_)
Ascending(S) ==
  IF S = {} THEN <<>>
  ELSE LET m == CHOOSE x \in S : \A y \in S : y <= x
       IN Append(Ascending(S \ {m}), m)

\* the inputs of the calculators: a clock, and either habit h1 with completion
\* dates on a set of days (as Habit.markCompleted keeps them: the start of each
\* day, ascending) or a ledger of u1 for h1 with an entry on a set of days, a
\* subset of them completed (as logProgress writes them)
InitCalc ==
  /\ DashboardClosed
  /\ tz = 0
  /\ now \in 0..((MaxDay + 1) * DayMs - 1)
  /\ SetupGroup(<<"u1">>, <<>>, TRUE)
  /\ \/ /\ \E S \in SUBSET CalcDays, createdAt \in {0, 1}, duration \in 1..MaxDuration :
             /\ createdAt <= now
             /\ habits = [h \in HabitIds |->
                            IF h = "h1"
                            THEN HabitDoc("u1", createdAt, duration, Ascending(S))
                            ELSE NoHabit]
        /\ progress = <<>>
     \/ /\ habits = [h \in HabitIds |->
                       IF h = "h1" THEN HabitDoc("u1", 0, 1, <<>>) ELSE NoHabit]
        /\ \E T \in SUBSET CalcDays : \E C \in SUBSET T :
             LET days == Ascending(T)
             IN progress = [i \in 1..Len(days) |->
                              PreSave(NewEntry("u1", "h1", days[i], days[i] \in C, 0), 0)]
  /\ calls = <<>>
  /\ res = NoResponse

NextCalc ==
  \/ \E u \in Users : GetHabits(u)
  \/ \E u \in Users, startDate \in {NULL, DayMs}, limit \in {1, 30} :
       GetHabitProgress(u, "h1", startDate, NULL, limit)
  \/ \E u \in Users, date \in {NULL, 0} : GetDailyProgress(u, date)
  \/ \E u \in Users, days \in {1, 30} : GetProgressStats(u, days)
  \/ \E u \in Users : GetDashboardStats(u)
  \/ \E u \in Users, days \in {1, 30} :
       ProgressCalculateCompletionRate(u, "h1", days)

SpecCalc == InitCalc /\ [][NextCalc]_vars

\* ---------------------------------------------------------------- groups
\* A Group document is [exists, creator, isActive, members, habits, isPrivate,
\* maxMembers, inviteCode, allowMemberHabitCreation]; name, description, tags
\* and statistics are payload that no handler reads, and are left out.
MaxGroupSize == 2   \* requests ask for maxMembers up to this value

\* maxMembers: default 50, min 1, max 1000
DefaultMaxMembers == 50
MinMaxMembers == 1
MaxMaxMembers == 1000

\* the values of generateInviteCode() (8 random characters)
Codes == {"c1", "c2"}
\* no invite code (the field is undefined)
NoCode == "nocode"

\* a JSON boolean of a request body that may be absent
Given == {"true", "false"}
Undefined == "undefined"
OptBool == Given \cup {Undefined}

NoGroup == [exists |-> FALSE, creator |-> NoId, isActive |-> FALSE,
            members |-> <<>>, habits |-> <<>>, isPrivate |-> FALSE,
            maxMembers |-> DefaultMaxMembers, inviteCode |-> NoCode,
            allowMemberHabitCreation |-> TRUE]

\* [...new Set(array)]: the first occurrence of each element, in order
RECURSIVE Dedupe(_)
Dedupe(s) ==
  IF s = <<>> THEN <<>>
  ELSE LET init == Dedupe(SubSeq(s, 1, Len(s) - 1))
           last == s[Len(s)]
       IN IF last \in Range(init) THEN init ELSE Append(init, last)

\* groupSchema.pre('save'); code is the value generateInviteCode() would return
GroupPreSave(doc, code) ==
  LET d1 == IF doc.inviteCode = NoCode /\ ~doc.isPrivate
            THEN [doc EXCEPT !.inviteCode = code] ELSE doc
      d2 == IF d1.creator \notin Range(d1.members)
            THEN [d1 EXCEPT !.members = Append(@, d1.creator)] ELSE d1
  IN [d2 EXCEPT !.members = Dedupe(@), !.habits = Dedupe(@)]

\* the min and max validators of maxMembers
ValidMaxMembers(m) == m >= MinMaxMembers /\ m <= MaxMaxMembers

\* the isFull virtual
IsFullNever(doc) == FALSE

IsFull(doc) == Len(doc.members) >= doc.maxMembers

\* group.creator.toString() === req.user.userId.toString()
IsGroupCreatorNever(g, u) == FALSE

IsGroupCreator(g, u) == groups[g].creator = u

\* the last request (handler, requester, target document, invite code carried)
\* and the HTTP status of its answer
Reply(op, status, u, target, code) ==
  [op |-> op, status |-> status, user |-> u, target |-> target, code |-> code]

\* POST /api/groups; named: the body has a name; code: the next random code
CreateGroup(u, named, isPrivate, maxMembers, code) ==
  /\ \E g \in GroupIds : ~groups[g].exists
  /\ UNCHANGED <<dashboard, tz, now, habits, progress, calls>>
  /\ LET g == CHOOSE x \in GroupIds : ~groups[x].exists
         doc == [NoGroup EXCEPT
                   !.exists = TRUE, !.creator = u, !.isActive = TRUE,
                   !.members = <<u>>,
                   !.isPrivate = (isPrivate = "true"),
                   !.maxMembers = IF maxMembers = NULL THEN DefaultMaxMembers
                                  ELSE maxMembers]
     IN IF ~named
        THEN /\ res' = Reply("createGroup", 400, u, NoId, NoCode)
             /\ UNCHANGED <<groups, users>>
        ELSE IF ~ValidMaxMembers(doc.maxMembers)
        THEN /\ res' = Reply("createGroup", 500, u, NoId, NoCode)
             /\ UNCHANGED <<groups, users>>
        ELSE /\ groups' = [groups EXCEPT ![g] = GroupPreSave(doc, code)]
             /\ users' = [users EXCEPT ![u].joinedGroups = Append(@, g)]
             /\ res' = Reply("createGroup", 201, u, g, NoCode)

\* PUT /api/groups/:id; a field that is Undefined or NULL is not in the body
UpdateGroup(u, g, isPrivate, maxMembers, allow) ==
  /\ UNCHANGED <<dashboard, tz, now, users, habits, progress, calls>>
  /\ IF ~groups[g].exists
     THEN /\ res' = Reply("updateGroup", 404, u, g, NoCode)
          /\ UNCHANGED groups
     ELSE IF ~IsGroupCreator(g, u)
     THEN /\ res' = Reply("updateGroup", 403, u, g, NoCode)
          /\ UNCHANGED groups
     ELSE IF maxMembers # NULL /\ ~ValidMaxMembers(maxMembers)
     THEN /\ res' = Reply("updateGroup", 500, u, g, NoCode)
          /\ UNCHANGED groups
     ELSE /\ groups' = [groups EXCEPT ![g] =
               [@ EXCEPT
                  !.isPrivate = IF isPrivate \in Given
                                THEN isPrivate = "true" ELSE @,
                  !.maxMembers = IF maxMembers # NULL THEN maxMembers ELSE @,
                  !.allowMemberHabitCreation =
                     IF allow \in Given THEN allow = "true" ELSE @]]
          /\ res' = Reply("updateGroup", 200, u, g, NoCode)

\* DELETE /api/groups/:id
DeleteGroup(u, g) ==
  /\ UNCHANGED <<dashboard, tz, now, habits, progress, calls>>
  /\ IF ~groups[g].exists
     THEN /\ res' = Reply("deleteGroup", 404, u, g, NoCode)
          /\ UNCHANGED <<groups, users>>
     ELSE IF ~IsGroupCreator(g, u)
     THEN /\ res' = Reply("deleteGroup", 403, u, g, NoCode)
          /\ UNCHANGED <<groups, users>>
     ELSE /\ groups' = [groups EXCEPT ![g].isActive = FALSE]
          /\ users' = [x \in Users |->
                         [users[x] EXCEPT !.joinedGroups = Pull(@, g)]]
          /\ res' = Reply("deleteGroup", 200, u, g, NoCode)

\* group.addMember(userId) up to save(): the edited document
AddMemberNoPush(doc, u) == doc

AddMember(doc, u) ==
  IF u \in Range(doc.members) THEN doc
  ELSE [doc EXCEPT !.members = Append(@, u)]

\* POST /api/groups/:groupId/join; inviteCode: the code in the body (NoCode:
\* none); code: the next random code
JoinGroup(u, g, inviteCode, code) ==
  /\ UNCHANGED <<dashboard, tz, now, habits, progress, calls>>
  /\ IF ~groups[g].exists \/ ~groups[g].isActive
     THEN /\ res' = Reply("joinGroup", 404, u, g, inviteCode)
          /\ UNCHANGED <<groups, users>>
     ELSE IF u \in Range(groups[g].members)
     THEN /\ res' = Reply("joinGroup", 400, u, g, inviteCode)
          /\ UNCHANGED <<groups, users>>
     ELSE IF IsFull(groups[g])
     THEN /\ res' = Reply("joinGroup", 400, u, g, inviteCode)
          /\ UNCHANGED <<groups, users>>
     ELSE IF /\ groups[g].isPrivate
             /\ (inviteCode = NoCode \/ inviteCode # groups[g].inviteCode)
     THEN /\ res' = Reply("joinGroup", 403, u, g, inviteCode)
          /\ UNCHANGED <<groups, users>>
     ELSE /\ groups' = [groups EXCEPT ![g] =
                          GroupPreSave(AddMember(groups[g], u), code)]
          /\ users' = [users EXCEPT ![u].joinedGroups = Append(@, g)]
          /\ res' = Reply("joinGroup", 200, u, g, inviteCode)

\* POST /api/groups/:groupId/leave
LeaveGroup(u, g, code) ==
  /\ UNCHANGED <<dashboard, tz, now, habits, progress, calls>>
  /\ IF ~groups[g].exists
     THEN /\ res' = Reply("leaveGroup", 404, u, g, NoCode)
          /\ UNCHANGED <<groups, users>>
     ELSE IF u \notin Range(groups[g].members)
     THEN /\ res' = Reply("leaveGroup", 400, u, g, NoCode)
          /\ UNCHANGED <<groups, users>>
     ELSE IF IsGroupCreator(g, u)
     THEN /\ res' = Reply("leaveGroup", 403, u, g, NoCode)
          /\ UNCHANGED <<groups, users>>
     ELSE /\ groups' = [groups EXCEPT ![g] =
                          GroupPreSave([@ EXCEPT !.members = Pull(@, u)], code)]
          /\ users' = [users EXCEPT ![u].joinedGroups = Pull(@, g)]
          /\ res' = Reply("leaveGroup", 200, u, g, NoCode)

\* POST /api/groups/:groupId/habits
AddHabitToGroup(u, g, h, code) ==
  /\ UNCHANGED <<dashboard, tz, now, users, habits, progress, calls>>
  /\ IF ~groups[g].exists
     THEN /\ res' = Reply("addHabitToGroup", 404, u, g, NoCode)
          /\ UNCHANGED groups
     ELSE IF u \notin Range(groups[g].members)
     THEN /\ res' = Reply("addHabitToGroup", 403, u, g, NoCode)
          /\ UNCHANGED groups
     ELSE IF ~habits[h].exists
     THEN /\ res' = Reply("addHabitToGroup", 404, u, g, NoCode)
          /\ UNCHANGED groups
     ELSE IF ~IsCreator(h, u) /\ ~groups[g].allowMemberHabitCreation
     THEN /\ res' = Reply("addHabitToGroup", 403, u, g, NoCode)
          /\ UNCHANGED groups
     ELSE /\ groups' = [groups EXCEPT ![g] =
               GroupPreSave([@ EXCEPT !.habits = IF h \in Range(@) THEN @
                                                 ELSE Append(@, h)], code)]
          /\ res' = Reply("addHabitToGroup", 200, u, g, NoCode)

\* the server with habit h1 of u1 and no group yet
InitGroup ==
  /\ DashboardClosed
  /\ tz = 0
  /\ now = 0
  /\ habits = [h \in HabitIds |->
                 IF h = "h1" THEN HabitDoc("u1", 0, 1, <<>>) ELSE NoHabit]
  /\ groups = [g \in GroupIds |-> NoGroup]
  /\ users = [u \in Users |->
                [createdHabits |-> IF u = "u1" THEN <<"h1">> ELSE <<>>,
                 joinedGroups |-> <<>>]]
  /\ progress = <<>>
  /\ calls = <<>>
  /\ res = NoResponse

\* the values of maxMembers in a request body (NULL: absent)
BodyMaxMembers == {NULL} \cup (0..MaxGroupSize)

NextGroup ==
  \/ \E u \in Users, named \in BOOLEAN, isPrivate \in OptBool,
        maxMembers \in BodyMaxMembers, code \in Codes :
       CreateGroup(u, named, isPrivate, maxMembers, code)
  \/ \E u \in Users, g \in GroupIds, isPrivate \in OptBool,
        maxMembers \in BodyMaxMembers, allow \in OptBool :
       UpdateGroup(u, g, isPrivate, maxMembers, allow)
  \/ \E u \in Users, g \in GroupIds : DeleteGroup(u, g)
  \/ \E u \in Users, g \in GroupIds, inviteCode \in Codes \cup {NoCode},
        code \in Codes : JoinGroup(u, g, inviteCode, code)
  \/ \E u \in Users, g \in GroupIds, code \in Codes : LeaveGroup(u, g, code)
  \/ \E u \in Users, g \in GroupIds, h \in HabitIds, code \in Codes :
       AddHabitToGroup(u, g, h, code)

SpecGroup == InitGroup /\ [][NextGroup]_vars

\* ------------------------------------------------------------------ claims
LogDates == (0..MaxClock) \cup {NULL}

\* the positions of the ledger entries of user u for habit h on the calendar day
\* that starts at day
EntriesOn(coll, u, h, day) ==
  {i \in 1..Len(coll) :
     coll[i].user = u /\ coll[i].habit = h /\ StartOfDay(coll[i].date) = day}

OnePerDay(coll) ==
  \A i, j \in 1..Len(coll) :
    (/\ coll[i].user = coll[j].user /\ coll[i].habit = coll[j].habit
     /\ StartOfDay(coll[i].date) = StartOfDay(coll[j].date)) => i = j

\* the request answered by r reached Progress.createOrUpdate
ReachedUpsert(r) ==
  /\ r.op \in {"logProgress", "markCompleteToday"}
  /\ r.status \notin {400, 403, 404}

C1_UpsertStep ==
  (ReachedUpsert(res') /\ <<progress, res>>' # <<progress, res>>)
  => /\ res'.status = 200
     /\ Len(progress') \in {Len(progress), Len(progress) + 1}
     /\ \A i \in 1..Len(progress) :
          /\ progress'[i].user = progress[i].user
          /\ progress'[i].habit = progress[i].habit
          /\ progress'[i].date = progress[i].date
     /\ Len(progress') > Len(progress)
        => LET e == progress'[Len(progress')]
           IN EntriesOn(progress, e.user, e.habit, StartOfDay(e.date)) = {}

\* C1: when the handlers run one after the other, a logProgress or
\* markCompleteToday call that reaches createOrUpdate succeeds, keeps the user,
\* habit and day of every existing entry, and adds an entry only for a (user,
\* habit, calendar day) that had none: a call for a tuple that has an entry
\* updates it and creates nothing, and the ledger never holds two entries for
\* one tuple.
C1_SecondCallUpdates == [](OnePerDay(progress)) /\ [][C1_UpsertStep]_vars

\* C1 witness: the last request was a logProgress that succeeded and created
\* nothing (the newest entry was completed at an earlier time): it was an update
C1_Witness ==
  /\ res = Response("logProgress", 200)
  /\ Len(progress) >= 1
  /\ progress[Len(progress)].completed
  /\ progress[Len(progress)].completedAt < now

\* C4: in every stored Progress entry completedAt is set if and only if
\* completed is true.
C4_CompletedAtIffCompleted ==
  \A i \in 1..Len(progress) :
    (progress[i].completedAt # NULL) <=> progress[i].completed

\* C4 witness: an entry that was completed has been toggled to incomplete
C4_Witness ==
  /\ res = Response("toggleProgress", 200)
  /\ \E i \in 1..Len(progress) :
       ~progress[i].completed /\ progress[i].completedAt = NULL
  /\ \E i \in 1..Len(progress) :
       progress[i].completed /\ progress[i].completedAt # NULL

\* the condition of the claim: the habit exists and is active, and the user is
\* its creator or a member of an active group that lists the habit
MayLog(u, h) ==
  /\ habits[h].exists
  /\ habits[h].isActive
  /\ \/ habits[h].creator = u
     \/ \E g \in GroupIds :
          /\ groups[g].exists /\ groups[g].isActive
          /\ \E i \in 1..Len(groups[g].members) : groups[g].members[i] = u
          /\ \E i \in 1..Len(groups[g].habits) : groups[g].habits[i] = h

RejectedAs(u, h) == IF habits[h].exists /\ habits[h].isActive THEN 403 ELSE 404

C5_LogStep ==
  \A u \in Users, h \in HabitIds :
    (/\ res'.op = "logProgress"
     /\ ~MayLog(u, h)
     /\ \E d \in AuthDates, c \in BOOLEAN : LogProgress(u, h, d, c))
    => progress' = progress /\ res'.status = RejectedAs(u, h)

C5_MarkStep ==
  \A u \in Users, h \in HabitIds :
    (/\ res'.op = "markCompleteToday"
     /\ ~MayLog(u, h)
     /\ MarkCompleteToday(u, h))
    => progress' = progress /\ res'.status = RejectedAs(u, h)

\* every entry that a step writes or creates belongs to a user who may log the
\* habit
C5_WrittenStep ==
  (res'.op \in {"logProgress", "markCompleteToday"})
  => \A i \in 1..Len(progress') :
       (i > Len(progress) \/ progress'[i] # progress[i])
       => MayLog(progress'[i].user, progress'[i].habit)

\* C5: logProgress and markCompleteToday create or change a ledger entry only
\* for an existing, active habit and a requester who is its creator or a member
\* of an active group that lists it; every other request for a habit is
\* answered 404 (missing or inactive habit) or 403 and leaves the ledger
\* unchanged.
C5_OnlyAuthorizedWrites == [][C5_LogStep /\ C5_MarkStep /\ C5_WrittenStep]_vars

\* C5 witness: the group member u2 has an entry, and a later request was
\* rejected as not found (the habit was deleted in between)
C5_Witness ==
  /\ res = Response("logProgress", 404)
  /\ \E i \in 1..Len(progress) : progress[i].user = "u2"

\* C2: whatever the interleaving of two concurrent requests, the ledger never
\* holds two entries for one (user, habit, calendar day).
C2_NoDuplicateUnderRace ==
  \A i \in 1..Len(progress), j \in 1..Len(progress) :
    (/\ progress[i].user = progress[j].user
     /\ progress[i].habit = progress[j].habit
     /\ StartOfDay(progress[i].date) = StartOfDay(progress[j].date)) => i = j

\* C2 witness: both requests ran their findOne before either inserted (neither
\* found an entry), one has inserted and the other was rejected by the index
C2_Witness ==
  /\ \A r \in Reqs : calls[r].pc = "done" /\ calls[r].found = 0
  /\ calls["r1"].user = calls["r2"].user
  /\ calls["r1"].status = 200
  /\ calls["r2"].status \notin {200, 400}
  /\ Len(progress) = 1

\* C3: a request whose insert is rejected by the uniqueness constraint is
\* retried as an update, so that every concurrent logProgress or
\* markCompleteToday request that reaches createOrUpdate ends successfully.
C3_ConflictRetried ==
  \A r \in Reqs :
    (calls[r].pc = "done" /\ calls[r].status \notin {400, 403, 404})
    => calls[r].status = 200

\* the calendar days (their start) on which habit h has a completion date
HabitDays(h) ==
  {StartOfDay(habits[h].completionDates[i]) : i \in 1..Len(habits[h].completionDates)}

\* the calendar days on which the ledger has a completed entry of u for h
LedgerDays(u, h) ==
  {StartOfDay(progress[i].date) :
     i \in {j \in 1..Len(progress) :
              /\ progress[j].user = u /\ progress[j].habit = h
              /\ progress[j].completed}}

Today == StartOfDay(now)

Yesterday == StartOfDay(now) - DayMs

\* the number of consecutive days of D that end at day
RECURSIVE RunLength(_, _)
RunLength(D, day) == IF day \in D THEN 1 + RunLength(D, day - DayMs) ELSE 0

\* C6: the current streak that Habit.currentStreak (getHabits) and
\* Progress.getCurrentStreak (getHabitProgress) report is 0 whenever neither
\* today nor yesterday is a completed day.
C6_ZeroWithoutTodayAndYesterday ==
  /\ res.op = "getHabits"
     => \A h \in DOMAIN res.streak :
          (Today \notin HabitDays(h) /\ Yesterday \notin HabitDays(h))
          => res.streak[h] = 0
  /\ (res.op = "getHabitProgress" /\ res.status = 200)
     => \A h \in DOMAIN res.streak :
          (Today \notin LedgerDays(res.user, h) /\ Yesterday \notin LedgerDays(res.user, h))
          => res.streak[h] = 0

\* C7: when today is not completed and yesterday is, the reported streak is the
\* number of consecutive completed days that end yesterday (at least 1).
C7_StreakEndsYesterday ==
  /\ res.op = "getHabits"
     => \A h \in DOMAIN res.streak :
          (Today \notin HabitDays(h) /\ Yesterday \in HabitDays(h))
          => res.streak[h] = RunLength(HabitDays(h), Yesterday)
  /\ (res.op = "getHabitProgress" /\ res.status = 200)
     => \A h \in DOMAIN res.streak :
          (Today \notin LedgerDays(res.user, h) /\ Yesterday \in LedgerDays(res.user, h))
          => res.streak[h] = RunLength(LedgerDays(res.user, h), Yesterday)

\* C8: when today is completed, the reported streak is the number of
\* consecutive completed days that end today; earlier days after a gap and days
\* later than today do not count.
C8_StreakEndsToday ==
  /\ res.op = "getHabits"
     => \A h \in DOMAIN res.streak :
          Today \in HabitDays(h)
          => res.streak[h] = RunLength(HabitDays(h), Today)
  /\ (res.op = "getHabitProgress" /\ res.status = 200)
     => \A h \in DOMAIN res.streak :
          Today \in LedgerDays(res.user, h)
          => res.streak[h] = RunLength(LedgerDays(res.user, h), Today)

RateOps == {"getHabits", "getHabitProgress", "getDailyProgress",
            "getProgressStats", "getDashboardStats",
            "Progress.calculateCompletionRate"}

\* C9: every completion rate that is reported lies in [0, 100].
C9_RateInRange ==
  (res.op \in RateOps /\ res.status = 200)
  => \A k \in DOMAIN res.rate :
       /\ res.rate[k].den > 0
       /\ 0 <= res.rate[k].num
       /\ res.rate[k].num <= 100 * res.rate[k].den

\* C9 witness: a habit with more completion dates than expected completions is
\* reported with a rate of 100
C9_Witness ==
  /\ res.op = "getHabits"
  /\ \E h \in DOMAIN res.rate :
       /\ Len(habits[h].completionDates) > habits[h].duration
       /\ res.rate[h] = Pct(100, 1)

\* two rates are the same fraction
SameRate(a, b) == a.num * b.den = b.num * a.den

\* min(completed / expected, 100%), 0 when nothing is expected or completed
RateOfExpected(completed, expected) ==
  IF completed = 0 \/ expected = 0 THEN Pct(0, 1)
  ELSE IF completed < expected THEN Pct(completed * 100, expected)
  ELSE Pct(100, 1)

\* a habit created at time 0 with duration 30 and 7 completion dates, read 10
\* days later
ExampleHabit == HabitDoc("u1", 0, 30, [i \in 1..7 |-> (i + 2) * DayMs])

ExampleRate == CompletionRate(ExampleHabit, 10 * DayMs)

\* C10 as stated: the expected completions are min(whole days elapsed since
\* creation, duration), and the example habit has a rate of 70%.
C10_WholeDaysElapsed ==
  res.op = "getHabits"
  => /\ \A h \in DOMAIN res.rate :
          SameRate(res.rate[h],
                   RateOfExpected(Len(habits[h].completionDates),
                                  Min((now - habits[h].createdAt) \div DayMs,
                                      habits[h].duration)))
     /\ SameRate(ExampleRate, Pct(70, 1))

\* C10 amended: the expected completions are min(whole days elapsed since
\* creation + 1, duration): the day of creation counts. The example habit has
\* 11 expected completions and a rate of 700/11 (63.6%).
C10_DaysIncludingCreationDay ==
  res.op = "getHabits"
  => /\ \A h \in DOMAIN res.rate :
          SameRate(res.rate[h],
                   RateOfExpected(Len(habits[h].completionDates),
                                  Min(((now - habits[h].createdAt) \div DayMs) + 1,
                                      habits[h].duration)))
     /\ SameRate(ExampleRate, Pct(700, 11))

\* C10 witness: a habit read at least one whole day after its creation, with
\* fewer completion dates than expected completions
C10_Witness ==
  /\ res.op = "getHabits"
  /\ \E h \in DOMAIN res.rate :
       /\ now - habits[h].createdAt >= DayMs
       /\ Len(habits[h].completionDates) > 0
       /\ res.rate[h].den > 1

\* ------------------------------------------------------------ habit CRUD
\* duration: min 1, max 365
MinDuration == 1
LimitDuration == 365

ValidDuration(d) == d >= MinDuration /\ d <= LimitDuration

\* POST /api/habits; named: the body has a name and a frequency; duration = NULL:
\* the body has no duration
CreateHabit(u, named, duration) ==
  /\ \E h \in HabitIds : ~habits[h].exists
  /\ UNCHANGED <<dashboard, tz, now, groups, progress, calls>>
  /\ LET h == CHOOSE x \in HabitIds : ~habits[x].exists
     IN IF ~named \/ duration = NULL \/ duration = 0
        THEN /\ res' = Reply("createHabit", 400, u, NoId, NoCode)
             /\ UNCHANGED <<habits, users>>
        ELSE IF ~ValidDuration(duration)
        THEN /\ res' = Reply("createHabit", 500, u, NoId, NoCode)
             /\ UNCHANGED <<habits, users>>
        ELSE /\ habits' = [habits EXCEPT ![h] = HabitDoc(u, now, duration, <<>>)]
             /\ users' = [users EXCEPT ![u].createdHabits = Append(@, h)]
             /\ res' = Reply("createHabit", 201, u, h, NoCode)

\* PUT /api/habits/:id; a field that is NULL or Undefined is not in the body
UpdateHabit(u, h, duration, isActive) ==
  /\ UNCHANGED <<dashboard, tz, now, users, groups, progress, calls>>
  /\ IF ~habits[h].exists
     THEN /\ res' = Reply("updateHabit", 404, u, h, NoCode)
          /\ UNCHANGED habits
     ELSE IF ~IsCreator(h, u)
     THEN /\ res' = Reply("updateHabit", 403, u, h, NoCode)
          /\ UNCHANGED habits
     ELSE IF duration # NULL /\ ~ValidDuration(duration)
     THEN /\ res' = Reply("updateHabit", 500, u, h, NoCode)
          /\ UNCHANGED habits
     ELSE /\ habits' = [habits EXCEPT ![h] =
               [@ EXCEPT
                  !.duration = IF duration # NULL THEN duration ELSE @,
                  !.isActive = IF isActive \in Given
                               THEN isActive = "true" ELSE @]]
          /\ res' = Reply("updateHabit", 200, u, h, NoCode)

\* the server with habit h1 of u1, listed in group g1 of which u2 is a member
InitHabit ==
  /\ DashboardClosed
  /\ tz = 0
  /\ now = 0
  /\ Setup(<<"u1", "u2">>, <<"h1">>, TRUE)
  /\ progress = <<>>
  /\ calls = <<>>
  /\ res = NoResponse

\* the values of duration in a request body (NULL: absent)
BodyDurations == {NULL, LimitDuration + 1} \cup (0..MaxDuration)

NextHabit ==
  \/ \E u \in Users, named \in BOOLEAN, duration \in BodyDurations :
       CreateHabit(u, named, duration)
  \/ \E u \in Users, h \in HabitIds, duration \in BodyDurations,
        isActive \in OptBool : UpdateHabit(u, h, duration, isActive)
  \/ \E u \in Users, h \in HabitIds : DeleteHabit(u, h)
  \/ \E u \in Users : MarkCompleteToday(u, "h1")

SpecHabit == InitHabit /\ [][NextHabit]_vars

\* ------------------------------------- completion dates of a Habit document
\* date.toISOString().split('T')[0]: the UTC calendar day of the instant t (the
\* clock counts local time, tz ticks ahead of UTC)
IsoDay(t) == (t - tz) \div DayMs

\* dates.sort((a, b) => a - b)
RECURSIVE InsertAsc(_, _)
InsertAsc(s, x) ==
  IF s = <<>> THEN <<x>>
  ELSE IF x < Head(s) THEN <<x>> \o s
  ELSE <<Head(s)>> \o InsertAsc(Tail(s), x)

\* the validator of completionDates: no two dates with the same ISO day
NoDuplicateIsoDays(dates) ==
  \A i, j \in 1..Len(dates) : IsoDay(dates[i]) = IsoDay(dates[j]) => i = j

\* habit.isCompletedOnDate(date)
IsCompletedOnDate(dates, date) ==
  \E i \in 1..Len(dates) : IsoDay(dates[i]) = IsoDay(date)

\* a call of a Habit method on habit h with the date it worked on, whether it
\* left completionDates as they were (noop), and whether its save() was
\* accepted (200) or failed validation (500)
MethodCall(op, status, h, date, noop) ==
  [op |-> op, status |-> status, target |-> h, date |-> date, noop |-> noop]

\* the completionDates that habit.markCompleted(date) hands to save()
MarkedDatesRaw(dates, date) ==
  LET targetDate == date
      alreadyCompleted == \E i \in 1..Len(dates) : IsoDay(dates[i]) = IsoDay(targetDate)
  IN IF alreadyCompleted THEN dates ELSE InsertAsc(dates, targetDate)

MarkedDates(dates, date) ==
  LET targetDate == StartOfDay(date)
      alreadyCompleted == \E i \in 1..Len(dates) : IsoDay(dates[i]) = IsoDay(targetDate)
  IN IF alreadyCompleted THEN dates ELSE InsertAsc(dates, targetDate)

\* the completionDates that habit.removeCompletion(date) hands to save()
RemovedDates(dates, date) ==
  SelectSeq(dates, LAMBDA d : IsoDay(d) # IsoDay(date))

\* habit.save() of a document whose completionDates were edited
SaveDates(op, h, date, edited) ==
  /\ UNCHANGED <<dashboard, tz, now, users, groups, progress, calls>>
  /\ IF NoDuplicateIsoDays(edited)
     THEN /\ habits' = [habits EXCEPT ![h].completionDates = edited]
          /\ res' = MethodCall(op, 200, h, date, edited = habits[h].completionDates)
     ELSE /\ UNCHANGED habits
          /\ res' = MethodCall(op, 500, h, date, FALSE)

\* habit.markCompleted(date); date = NULL: the default, new Date()
HabitMarkCompleted(h, date) ==
  LET d == IF date = NULL THEN now ELSE date
  IN SaveDates("Habit.markCompleted", h, d,
               MarkedDates(habits[h].completionDates, d))

\* habit.removeCompletion(date)
HabitRemoveCompletion(h, date) ==
  LET d == IF date = NULL THEN now ELSE date
  IN SaveDates("Habit.removeCompletion", h, d,
               RemovedDates(habits[h].completionDates, d))

\* habit.toggleCompletion(date)
HabitToggleCompletion(h, date) ==
  LET d == IF date = NULL THEN now ELSE date
  IN IF IsCompletedOnDate(habits[h].completionDates, d)
     THEN SaveDates("Habit.toggleCompletion", h, d,
                    RemovedDates(habits[h].completionDates, d))
     ELSE SaveDates("Habit.toggleCompletion", h, d,
                    MarkedDates(habits[h].completionDates, d))

\* the instants a call may name: every tick of the days 0..MaxDay
Instants == 0..((MaxDay + 1) * DayMs - 1)

\* the time zones of the server: UTC, or half a day east of UTC
Zones == {0, DayMs \div 2}

\* habit h1 without completion dates, on a server in one of the time zones
InitDates ==
  /\ DashboardClosed
  /\ tz \in Zones
  /\ now = 0
  /\ habits = [h \in HabitIds |->
                 IF h = "h1" THEN HabitDoc("u1", 0, 1, <<>>) ELSE NoHabit]
  /\ SetupGroup(<<"u1">>, <<>>, TRUE)
  /\ progress = <<>>
  /\ calls = <<>>
  /\ res = NoResponse

NextDates ==
  \/ \E date \in Instants \cup {NULL} : HabitMarkCompleted("h1", date)
  \/ \E date \in Instants \cup {NULL} : HabitRemoveCompletion("h1", date)
  \/ \E date \in Instants \cup {NULL} : HabitToggleCompletion("h1", date)
  \/ Tick

SpecDates == InitDates /\ [][NextDates]_vars

\* --------------------------------------------------------- Google sign-in
\* Here users is the User collection as a sequence of documents [email,
\* googleId]; the _id of a user is its position. An email is [local, domain].
\* username: maxlength 30
UsernameMaxLength == 30
\* the number of digits of Date.now()
TimestampDigits == 13

GoogleIds == {"gA", "gB"}

Emails == {[local |-> "ann", domain |-> "gmail.com"],
           [local |-> "bob", domain |-> "gmail.com"],
           [local |-> "firstname.lastname", domain |-> "gmail.com"]}

\* a Google profile: its id, its first email, and whether name.familyName is set
Profiles == [id : GoogleIds, email : Emails, familyName : BOOLEAN]

\* User.findOne({ googleId }): the position of the user, 0 when there is none
FindByGoogleId(coll, id) ==
  LET hits == {i \in 1..Len(coll) : coll[i].googleId = id}
  IN IF hits = {} THEN 0 ELSE CHOOSE i \in hits : \A j \in hits : i <= j

\* User.findOne({ email })
FindByEmail(coll, email) ==
  LET hits == {i \in 1..Len(coll) : coll[i].email = email}
  IN IF hits = {} THEN 0 ELSE CHOOSE i \in hits : \A j \in hits : i <= j

\* the validators that decide newUser.save(): username is the local part, '_'
\* and Date.now(), at most 30 characters; lastName is required
NewUserValid(profile) ==
  /\ Len(profile.email.local) + 1 + TimestampDigits <= UsernameMaxLength
  /\ profile.familyName

\* the unique indexes on email and googleId (sparse)
UsersUniqueOk(coll, doc) ==
  \A i \in 1..Len(coll) :
    /\ coll[i].email # doc.email
    /\ doc.googleId # NoId => coll[i].googleId # doc.googleId

\* the sign-in processed last: the profile, the user handed to done() (0: none)
\* and 200 for done(null, user), 500 for done(error, null)
SignIn(status, profile, user) ==
  [op |-> "googleSignIn", status |-> status, googleId |-> profile.id,
   email |-> profile.email, user |-> user]

\* the verify callback of the GoogleStrategy
GoogleSignIn(profile) ==
  /\ UNCHANGED <<dashboard, tz, now, habits, groups, progress, calls>>
  /\ LET byId == FindByGoogleId(users, profile.id)
         byEmail == FindByEmail(users, profile.email)
         newUser == [email |-> profile.email, googleId |-> profile.id]
     IN IF byId # 0
        THEN /\ UNCHANGED users
             /\ res' = SignIn(200, profile, byId)
        ELSE IF byEmail # 0
        THEN /\ users' = [users EXCEPT ![byEmail].googleId = profile.id]
             /\ res' = SignIn(200, profile, byEmail)
        ELSE IF NewUserValid(profile) /\ UsersUniqueOk(users, newUser)
        THEN /\ users' = Append(users, newUser)
             /\ res' = SignIn(200, profile, Len(users) + 1)
        ELSE /\ UNCHANGED users
             /\ res' = SignIn(500, profile, 0)

\* no user yet, or one user who registered with a password
InitGoogle ==
  /\ DashboardClosed
  /\ tz = 0
  /\ now = 0
  /\ users \in {<<>>} \cup {<<[email |-> e, googleId |-> NoId]>> : e \in Emails}
  /\ habits = [h \in HabitIds |-> NoHabit]
  /\ groups = [g \in GroupIds |-> NoGroup]
  /\ progress = <<>>
  /\ calls = <<>>
  /\ res = NoResponse

NextGoogle == \E profile \in Profiles : GoogleSignIn(profile)

SpecGoogle == InitGoogle /\ [][NextGoogle]_vars

\* ------------------------------------- two joinGroup requests in flight
\* Each await of joinGroup is a step: Group.findById with the checks that
\* follow it (JoinFind), group.addMember with its save() (JoinSave) and
\* User.findByIdAndUpdate (JoinPush). The stored group carries the version
\* key (version) that save() maintains.
Joiners == {"u2", "u3", "u4"}

JoinIdle == [pc |-> "idle", user |-> NoId, code |-> NoCode,
             loaded |-> NoGroup, status |-> 0]

\* how save() writes the members array that addMember has pushed to and the
\* pre-save hook has reassigned to its de-duplicated copy: as the push it
\* recorded ($push of the new member, no version check), or as the whole
\* array ($set, guarded by the version key and rejected when the stored
\* version has moved on); which one depends on the installed mongoose
SaveModes == {"push", "set"}

\* the two requests come from different users
JoinBegin(r, u, inviteCode) ==
  /\ calls[r].pc = "idle"
  /\ \A q \in Reqs \ {r} : calls[q].user # u
  /\ UNCHANGED <<dashboard, tz, now, users, habits, groups, progress, res>>
  /\ calls' = [calls EXCEPT ![r] =
       [JoinIdle EXCEPT !.pc = "findById", !.user = u, !.code = inviteCode]]

\* Group.findById and the checks up to the call of addMember
JoinFind(r, g) ==
  /\ calls[r].pc = "findById"
  /\ UNCHANGED <<dashboard, tz, now, users, habits, groups, progress, res>>
  /\ LET c == calls[r]
         group == groups[g]
     IN calls' = [calls EXCEPT ![r] =
          IF ~group.exists \/ ~group.isActive THEN Done(c, 404)
          ELSE IF c.user \in Range(group.members) THEN Done(c, 400)
          ELSE IF IsFull(group) THEN Done(c, 400)
          ELSE IF /\ group.isPrivate
                  /\ (c.code = NoCode \/ c.code # group.inviteCode)
          THEN Done(c, 403)
          ELSE [c EXCEPT !.pc = "save", !.loaded = group]]

\* group.addMember(userId): the isFull check and the push on the loaded
\* document, then save()
JoinSave(r, g, code) ==
  /\ calls[r].pc = "save"
  /\ UNCHANGED <<dashboard, tz, now, users, habits, progress, res>>
  /\ LET c == calls[r]
         edited == GroupPreSave(AddMember(c.loaded, c.user), code)
     IN IF IsFull(c.loaded)
        THEN /\ UNCHANGED groups
             /\ calls' = [calls EXCEPT ![r] = Done(c, 500)]
        ELSE \E mode \in SaveModes :
          IF mode = "push"
          THEN /\ groups' = [groups EXCEPT ![g].members = Append(@, c.user)]
               /\ calls' = [calls EXCEPT ![r] = [c EXCEPT !.pc = "push"]]
          ELSE IF groups[g].version # c.loaded.version
          THEN /\ UNCHANGED groups
               /\ calls' = [calls EXCEPT ![r] = Done(c, 500)]
          ELSE /\ groups' = [groups EXCEPT ![g] =
                    [@ EXCEPT !.members = edited.members,
                              !.version = @ + 1]]
               /\ calls' = [calls EXCEPT ![r] = [c EXCEPT !.pc = "push"]]

\* User.findByIdAndUpdate(userId, { $push: { joinedGroups } }) and the answer
JoinPush(r, g) ==
  /\ calls[r].pc = "push"
  /\ UNCHANGED <<dashboard, tz, now, habits, groups, progress, res>>
  /\ users' = [users EXCEPT ![calls[r].user].joinedGroups = Append(@, g)]
  /\ calls' = [calls EXCEPT ![r] = Done(calls[r], 200)]

\* group g1 of u1, public or private, with exactly one free slot
InitJoinRace ==
  /\ DashboardClosed
  /\ tz = 0
  /\ now = 0
  /\ habits = [h \in HabitIds |-> NoHabit]
  /\ \E private \in BOOLEAN :
       groups = [g \in GroupIds |->
         [exists |-> TRUE, creator |-> "u1", isActive |-> TRUE,
          members |-> <<"u1">>, habits |-> <<>>, isPrivate |-> private,
          maxMembers |-> 2, inviteCode |-> "c1",
          allowMemberHabitCreation |-> TRUE, version |-> 0]]
  /\ users = [u \in {"u1"} \cup Joiners |->
                [createdHabits |-> <<>>,
                 joinedGroups |-> IF u = "u1" THEN <<"g1">> ELSE <<>>]]
  /\ progress = <<>>
  /\ calls = [r \in Reqs |-> JoinIdle]
  /\ res = NoResponse

NextJoinRace ==
  \/ \E r \in Reqs, u \in Joiners, inviteCode \in {"c1", NoCode} :
       JoinBegin(r, u, inviteCode)
  \/ \E r \in Reqs : JoinFind(r, "g1")
  \/ \E r \in Reqs, code \in Codes : JoinSave(r, "g1", code)
  \/ \E r \in Reqs : JoinPush(r, "g1")

SpecJoinRace == InitJoinRace /\ [][NextJoinRace]_vars

\* ------------------------------------------------- who may read a habit
\* GET /api/habits/:id
GetHabit(u, h) ==
  /\ UNCHANGED <<dashboard, tz, now, users, habits, groups, progress, calls>>
  /\ IF ~habits[h].exists
     THEN res' = Reply("getHabit", 404, u, h, NoCode)
     ELSE IF ~IsCreator(h, u) /\ ~IsMember(h, u)
     THEN res' = Reply("getHabit", 403, u, h, NoCode)
     ELSE res' = Reply("getHabit", 200, u, h, NoCode)

\* habit h1 of u1 and habit h2 of u2; group g1 of u1, public, which u2 has
\* joined, with the habits hs
InitAccess ==
  /\ DashboardClosed
  /\ tz = 0
  /\ now = 0
  /\ habits = [h \in HabitIds |->
                 HabitDoc(IF h = "h1" THEN "u1" ELSE "u2", 0, 1, <<>>)]
  /\ \E hs \in {<<>>, <<"h1">>} :
       groups = [g \in GroupIds |->
         [NoGroup EXCEPT !.exists = TRUE, !.creator = "u1",
                         !.isActive = TRUE, !.members = <<"u1", "u2">>,
                         !.habits = hs, !.inviteCode = "c1"]]
  /\ users = [u \in Users |->
                [createdHabits |-> IF u = "u1" THEN <<"h1">> ELSE <<"h2">>,
                 joinedGroups |-> <<"g1">>]]
  /\ progress = <<>>
  /\ calls = <<>>
  /\ res = NoResponse

NextAccess ==
  \/ \E u \in Users, g \in GroupIds : JoinGroup(u, g, NoCode, "c2")
  \/ \E u \in Users, g \in GroupIds : LeaveGroup(u, g, "c2")
  \/ \E u \in Users, g \in GroupIds, h \in HabitIds :
       AddHabitToGroup(u, g, h, "c2")
  \/ \E u \in Users, g \in GroupIds : DeleteGroup(u, g)
  \/ \E u \in Users, h \in HabitIds : DeleteHabit(u, h)
  \/ \E u \in Users, h \in HabitIds : GetHabit(u, h)
  \/ \E u \in Users, h \in HabitIds : GetHabitProgress(u, h, NULL, NULL, 30)

SpecAccess == InitAccess /\ [][NextAccess]_vars

\* ---------------------------------------------------- the dashboard page
MaxTimers == 3      \* at most this many setTimeout callbacks are pending

\* the isCompletedToday virtual of a habit document, read at time t
IsCompletedTodayVirtual(habit, t) ==
  \E i \in 1..Len(habit.completionDates) :
    IsoDay(habit.completionDates[i]) = IsoDay(StartOfDay(t))

\* the time of fetchData, which runs once when the page is mounted
FetchedAt == 0

\* isCompletedToday(habit) of the page: the flag that getHabits delivered when
\* the page was loaded, or the local set
IsCompletedToday(h) ==
  IsCompletedTodayVirtual(habits[h], FetchedAt) \/ h \in completedHabits

\* handleMarkComplete(habitId), a click on a habit of the list
HandleMarkComplete(h) ==
  /\ habits[h].exists
  /\ UNCHANGED <<tz, now, users, habits, groups, progress, calls, res>>
  /\ IF loggingProgress = h
     THEN UNCHANGED dashboard
     ELSE IF IsCompletedToday(h)
     THEN UNCHANGED dashboard
     ELSE /\ Len(timers) < MaxTimers
          /\ loggingProgress' = h
          /\ timers' = Append(timers, h)
          /\ UNCHANGED <<completedHabits, notified>>

\* the callback of the oldest pending setTimeout (all delays are 1000 ms)
TimerFires ==
  /\ timers # <<>>
  /\ UNCHANGED <<tz, now, users, habits, groups, progress, calls, res>>
  /\ completedHabits' = completedHabits \cup {Head(timers)}
  /\ notified' = [notified EXCEPT ![Head(timers)] = @ + 1]
  /\ loggingProgress' = NoId
  /\ timers' = Tail(timers)

\* the page after fetchData: the habits h1 and h2 of u1, each completed today
\* on the server or not; the clock runs while the page is open
InitDashboard ==
  /\ DashboardClosed
  /\ tz = 0
  /\ now = 0
  /\ \E dates \in [HabitIds -> {<<>>, <<0>>}] :
       habits = [h \in HabitIds |-> HabitDoc("u1", 0, 1, dates[h])]
  /\ SetupGroup(<<"u1">>, <<>>, TRUE)
  /\ progress = <<>>
  /\ calls = <<>>
  /\ res = NoResponse

NextDashboard ==
  \/ \E h \in HabitIds : HandleMarkComplete(h)
  \/ TimerFires
  \/ Tick

SpecDashboard == InitDashboard /\ [][NextDashboard]_vars

\* ------------------------------------- the ledger and the habits list
\* the requests that complete habit h1 and the request that lists the habits,
\* one at a time
NextLedgerView ==
  \/ \E u \in Users, d \in {NULL, 1}, c \in BOOLEAN : LogProgress(u, "h1", d, c)
  \/ \E u \in Users : MarkCompleteToday(u, "h1")
  \/ \E u \in Users : GetHabits(u)
  \/ Tick

SpecLedgerView == Init /\ [][NextLedgerView]_vars

\* ------------------------------------------- habits after their deletion
\* the habit, group and progress requests for the habits h1 of u1 and h2 of
\* u2 and the group g1, one at a time
NextLifecycle ==
  \/ \E u \in Users, h \in HabitIds, isActive \in OptBool :
       UpdateHabit(u, h, NULL, isActive)
  \/ \E u \in Users, h \in HabitIds : DeleteHabit(u, h)
  \/ \E u \in Users, h \in HabitIds : AddHabitToGroup(u, "g1", h, "c2")
  \/ \E u \in Users, c \in BOOLEAN : LogProgress(u, "h1", NULL, c)
  \/ \E u \in Users : MarkCompleteToday(u, "h1")
  \/ \E u \in Users, pid \in 1..(MaxEntries + 1) : ToggleProgress(u, pid)

SpecLifecycle == InitAccess /\ [][NextLifecycle]_vars

\* ------------------------------------------- the two streak calculators
\* habit h1 of u1 with a completion date on each day of a set D, and a ledger
\* of u1 for h1 with exactly one completed entry for each day of D
InitStreaks ==
  /\ DashboardClosed
  /\ tz = 0
  /\ now \in 0..((MaxDay + 1) * DayMs - 1)
  /\ SetupGroup(<<"u1">>, <<>>, TRUE)
  /\ \E D \in SUBSET CalcDays :
       LET days == Ascending(D)
       IN /\ habits = [h \in HabitIds |->
                         IF h = "h1" THEN HabitDoc("u1", 0, 1, days) ELSE NoHabit]
          /\ progress = [i \in 1..Len(days) |->
                           PreSave(NewEntry("u1", "h1", days[i], TRUE, 0), 0)]
  /\ calls = <<>>
  /\ res = NoResponse

NextStreaks ==
  \/ \E u \in Users : GetHabits(u)
  \/ \E u \in Users : GetHabitProgress(u, "h1", NULL, NULL, 30)

SpecStreaks == InitStreaks /\ [][NextStreaks]_vars

\* ------------------------------------------------------ claims on groups
\* C11: every group has at most maxMembers members.
C11_AtMostMaxMembers ==
  \A g \in GroupIds :
    groups[g].exists => Len(groups[g].members) <= groups[g].maxMembers

\* the last request was a joinGroup by a non-member on an active group whose
\* member count had reached maxMembers
FullJoinStep ==
  /\ res'.op = "joinGroup"
  /\ groups[res'.target].exists
  /\ groups[res'.target].isActive
  /\ res'.user \notin Range(groups[res'.target].members)
  /\ Len(groups[res'.target].members) >= groups[res'.target].maxMembers

C12_ConflictStep ==
  FullJoinStep => (res'.status = 409 /\ groups' = groups /\ users' = users)

\* C12 as stated: joinGroup by a non-member on an active full group is answered
\* with a conflict status (409) and changes neither the group nor the users.
C12_FullJoinConflict == [][C12_ConflictStep]_vars

C12_BadRequestStep ==
  FullJoinStep => (res'.status = 400 /\ groups' = groups /\ users' = users)

\* C12 amended: joinGroup by a non-member on an active full group is answered
\* with 400 ("Group is full") and changes neither the group's members nor any
\* user's joinedGroups.
C12_FullJoinBadRequest == [][C12_BadRequestStep]_vars

\* C12 witness: a non-member's joinGroup on an active full group was answered
C12_Witness ==
  /\ res.op = "joinGroup"
  /\ res.status = 400
  /\ groups[res.target].isActive
  /\ res.user \notin Range(groups[res.target].members)
  /\ Len(groups[res.target].members) = groups[res.target].maxMembers

CreatorInMembers ==
  \A g \in GroupIds :
    groups[g].exists => groups[g].creator \in Range(groups[g].members)

C13_LeaveStep ==
  (/\ res'.op = "leaveGroup"
   /\ groups[res'.target].exists
   /\ res'.user = groups[res'.target].creator)
  => (res'.status = 403 /\ groups' = groups /\ users' = users)

\* C13: the creator of every group is in its members, and a leaveGroup request
\* of the creator is rejected (403) and changes nothing.
C13_CreatorAlwaysMember == [](CreatorInMembers) /\ [][C13_LeaveStep]_vars

\* C13 witness: the creator of a group with another member asked to leave
C13_Witness ==
  /\ res.op = "leaveGroup"
  /\ res.status = 403
  /\ res.user = groups[res.target].creator
  /\ Len(groups[res.target].members) > 1

\* C14: a group has an inviteCode if and only if it is public.
C14_InviteCodeIffPublic ==
  \A g \in GroupIds :
    groups[g].exists => ((groups[g].inviteCode # NoCode) <=> ~groups[g].isPrivate)

C15_JoinStep ==
  (/\ res'.op = "joinGroup"
   /\ groups[res'.target].exists
   /\ groups[res'.target].isActive
   /\ groups[res'.target].isPrivate
   /\ res'.user \notin Range(groups[res'.target].members)
   /\ Len(groups[res'.target].members) < groups[res'.target].maxMembers)
  => IF res'.code # NoCode /\ res'.code = groups[res'.target].inviteCode
     THEN /\ res'.status = 200
          /\ res'.user \in Range(groups'[res'.target].members)
     ELSE res'.status = 403 /\ groups' = groups /\ users' = users

\* a private group has a stored invite code that a user can present
PrivateGroupsJoinable ==
  \A g \in GroupIds :
    (groups[g].exists /\ groups[g].isPrivate) => groups[g].inviteCode # NoCode

\* C15: joinGroup by a non-member on an active, non-full private group succeeds
\* exactly when the request carries the group's stored invite code, and is
\* otherwise rejected with 403 without a change; a private group can therefore
\* be joined by presenting its invite code (it has one).
C15_PrivateJoinByInviteCode == [](PrivateGroupsJoinable) /\ [][C15_JoinStep]_vars

\* ------------------------------------------------------ claims on habits
\* a stored habit changes only in a successful updateHabit of its creator or in
\* a successful deleteHabit that its creator could have sent
C16_ChangeStep ==
  \A h \in HabitIds :
    (habits[h].exists /\ habits'[h] # habits[h])
    => /\ res'.op \in {"updateHabit", "deleteHabit"}
       /\ res'.status = 200
       /\ res'.op = "updateHabit"
          => (res'.user = habits[h].creator /\ res'.target = h)
       /\ res'.op = "deleteHabit" => DeleteHabit(habits[h].creator, h)

\* an updateHabit or deleteHabit of another user is answered 403 and changes
\* nothing
C16_OtherUserStep ==
  /\ (/\ res'.op = "updateHabit"
      /\ habits[res'.target].exists
      /\ res'.user # habits[res'.target].creator)
     => (res'.status = 403 /\ UNCHANGED <<habits, users, groups>>)
  /\ \A u \in Users, h \in HabitIds :
       (/\ res'.op = "deleteHabit"
        /\ habits[h].exists
        /\ u # habits[h].creator
        /\ DeleteHabit(u, h))
       => (res'.status = 403 /\ UNCHANGED <<habits, users, groups>>)

\* C16: the stored fields of a habit change only through an updateHabit or
\* deleteHabit request of the habit's creator; the same request of any other
\* user is answered 403 and leaves the habit, the users' createdHabits and the
\* groups' habits unchanged.
C16_OnlyCreatorMutates == [][C16_ChangeStep /\ C16_OtherUserStep]_vars

\* C16 witness: the creator has changed the habit, and another user's update
\* of it was answered 403
C16_Witness ==
  /\ res.op = "updateHabit"
  /\ res.status = 403
  /\ res.user # habits[res.target].creator
  /\ habits[res.target].duration # 1

C17_DeleteStep ==
  (res'.op = "deleteHabit" /\ res'.status = 200)
  => /\ progress' = progress
     /\ \A h \in HabitIds :
          habits[h].exists
          => /\ habits'[h].exists
             /\ habits'[h] # habits[h] => ~habits'[h].isActive
     /\ \E h \in HabitIds : habits'[h].exists /\ ~habits'[h].isActive

\* C17: a successful deleteHabit is a soft delete: the habit record still
\* exists with isActive = false, every other habit is as before, and the
\* ledger is the same as before the call (every Progress entry of the habit is
\* kept with its user, day, completed flag and completedAt).
C17_SoftDeleteKeepsLedger == [][C17_DeleteStep]_vars

\* C17 witness: a habit with a ledger entry was deleted
C17_Witness ==
  /\ res = Response("deleteHabit", 200)
  /\ \E i \in 1..Len(progress) :
       /\ habits[progress[i].habit].exists
       /\ ~habits[progress[i].habit].isActive

\* the completion dates of every habit fall on pairwise different calendar
\* days, in local time and in UTC
OneDatePerDay ==
  \A h \in HabitIds :
    \A i, j \in 1..Len(habits[h].completionDates) :
      (\/ StartOfDay(habits[h].completionDates[i])
            = StartOfDay(habits[h].completionDates[j])
       \/ IsoDay(habits[h].completionDates[i])
            = IsoDay(habits[h].completionDates[j]))
      => i = j

C18_MarkStep ==
  (/\ res'.op = "Habit.markCompleted"
   /\ \E i \in 1..Len(habits[res'.target].completionDates) :
        StartOfDay(habits[res'.target].completionDates[i]) = StartOfDay(res'.date))
  => habits' = habits

\* C18: after any sequence of Habit.markCompleted, removeCompletion and
\* toggleCompletion calls with arbitrary dates, completionDates holds at most
\* one entry per calendar day, and markCompleted for a day that is already
\* present adds nothing.
C18_OneCompletionPerDay == [](OneDatePerDay) /\ [][C18_MarkStep]_vars

\* C18 witness: markCompleted was called with a later instant of a day that is
\* already present, next to another completed day
C18_Witness ==
  /\ res.op = "Habit.markCompleted"
  /\ res.noop
  /\ res.date # StartOfDay(res.date)
  /\ StartOfDay(res.date) \in Range(habits[res.target].completionDates)
  /\ Len(habits[res.target].completionDates) >= 2

\* ------------------------------------------------ claims on error handling
\* C19: a failure raised in a handler body (including a storage conflict during
\* markCompleteToday) is caught by the handler and answered with an error
\* response: no request that has ended is left without a response.
C19_EveryFailureAnswered ==
  \A r \in Reqs : calls[r].pc = "done" => calls[r].status # 0

\* ------------------------------------------------ claims on Google sign-in
\* no two users share an email or a googleId
UsersUnique ==
  \A i, j \in 1..Len(users) :
    (\/ users[i].email = users[j].email
     \/ (users[i].googleId # NoId /\ users[i].googleId = users[j].googleId))
    => i = j

C20_SignInStep ==
  res'.op = "googleSignIn"
  => IF \E i \in 1..Len(users) : users[i].googleId = res'.googleId
     THEN users' = users
     ELSE IF \E i \in 1..Len(users) : users[i].email = res'.email
     THEN /\ Len(users') = Len(users)
          /\ \A i \in 1..Len(users) :
               /\ users'[i].email = users[i].email
               /\ users'[i].googleId =
                    IF users[i].email = res'.email THEN res'.googleId
                    ELSE users[i].googleId
     ELSE /\ Len(users') = Len(users) + 1
          /\ SubSeq(users', 1, Len(users)) = users
          /\ users'[Len(users')] = [email |-> res'.email, googleId |-> res'.googleId]

\* C20: a Google sign-in with a known Google id creates no user; one with an
\* unknown id whose email matches an existing user links the id to that user
\* and creates none; one with an unknown id and an unknown email creates exactly
\* one new user; and no two users ever share an email or a googleId.
C20_GoogleSignInAccounts == [](UsersUnique) /\ [][C20_SignInStep]_vars

C22_MarkStep ==
  \A u \in Users :
    (/\ res'.op = "markCompleteToday"
     /\ MayLog(u, "h1")
     /\ MarkCompleteToday(u, "h1"))
    => IF \E i \in EntriesOn(progress, u, "h1", Today) : progress[i].completed
       THEN /\ res' = Response("markCompleteToday", 400)
            /\ progress' = progress
       ELSE /\ res' = Response("markCompleteToday", 200)
            /\ Cardinality(EntriesOn(progress', u, "h1", Today)) = 1
            /\ \A i \in EntriesOn(progress', u, "h1", Today) :
                 progress'[i].completed

\* C22: markCompleteToday by an authorized user is rejected with 400 and
\* leaves the ledger unchanged when a completed entry for (user, habit, today)
\* exists; otherwise, with no entry or an incomplete entry for today, the
\* ledger afterwards holds exactly one entry for (user, habit, today), and it
\* is completed.
C22_MarkCompleteTodayOnce == [][C22_MarkStep]_vars

\* C22 witness: the last request was a markCompleteToday that completed the
\* older entry, which had been logged as incomplete before the newer entry
\* was completed
C22_Witness ==
  /\ res = Response("markCompleteToday", 200)
  /\ now = 1
  /\ Len(progress) = 2
  /\ progress[1].completed /\ progress[1].completedAt = 1
  /\ progress[2].completed /\ progress[2].completedAt = 0

\* ------------------------------------------------ claims on read access
\* the condition of the claim: u created h, or u is a member of an active
\* group whose habits include h
MayRead(u, h) ==
  \/ habits[h].creator = u
  \/ \E g \in GroupIds :
       /\ groups[g].exists /\ groups[g].isActive
       /\ \E i \in 1..Len(groups[g].members) : groups[g].members[i] = u
       /\ \E i \in 1..Len(groups[g].habits) : groups[g].habits[i] = h

C23_ReadStep ==
  \A u \in Users, h \in HabitIds :
    (/\ res'.op \in {"getHabit", "getHabitProgress"}
     /\ habits[h].exists
     /\ GetHabit(u, h) \/ GetHabitProgress(u, h, NULL, NULL, 30))
    => res'.status = IF MayRead(u, h) THEN 200 ELSE 403

\* C23: getHabit and getHabitProgress answer with the habit's data only for
\* its creator or a member of an active group whose habits include the
\* habit, and with 403 for every other user, in every state reached through
\* join, leave, addHabitToGroup, deleteGroup and deleteHabit requests.
C23_ReadOnlyCreatorOrMember == [][C23_ReadStep]_vars

\* C23 witness: u2, who is no longer a member of the active group that lists
\* h1, is refused h1
C23_Witness ==
  /\ res = Reply("getHabit", 403, "u2", "h1", NoCode)
  /\ groups["g1"].isActive
  /\ "h1" \in Range(groups["g1"].habits)
  /\ "u2" \notin Range(groups["g1"].members)
  /\ users["u2"].joinedGroups = <<>>

\* -------------------------------------------- claims on the dashboard page
\* the number of pending timers for habit h
PendingFor(h) == Cardinality({i \in 1..Len(timers) : timers[i] = h})

\* C24: at no time are two completion timers of handleMarkComplete pending
\* for the same habit, also when completions of other habits are started and
\* finish in between, and each habit is reported as completed at most once.
C24_OneTimerPerHabit ==
  \A h \in HabitIds : PendingFor(h) <= 1 /\ notified[h] <= 1

\* ----------------------------- claims on the ledger and the completion set
\* C25: the ledger and the habit's completion set agree: once a successful
\* markCompleteToday or logProgress(completed, today) of the creator has put a
\* completed entry for today into the ledger, the habit that getHabits returns
\* to the creator has today in completionDates, so that its isCompletedToday
\* is true and its currentStreak is at least 1.
C25_LedgerAndHabitAgree ==
  \A h \in HabitIds :
    (/\ res.op = "getHabits"
     /\ h \in DOMAIN res.streak
     /\ Today \in LedgerDays(res.user, h))
    => /\ Today \in HabitDays(h)
       /\ IsCompletedTodayVirtual(habits[h], now)
       /\ res.streak[h] >= 1

\* ------------------------------------------------ claims on soft deletion
\* deleteHabit has succeeded for habit h: only deleteHabit takes a habit out
\* of its creator's createdHabits
Deleted(h) ==
  /\ habits[h].exists
  /\ h \notin Range(users[habits[h].creator].createdHabits)

C26_FrozenStep ==
  /\ Len(progress') >= Len(progress)
  /\ \A i \in 1..Len(progress) :
       (Deleted(progress[i].habit) /\ ~habits[progress[i].habit].isActive)
       => progress'[i].completed = progress[i].completed

\* C26: once a habit has been soft-deleted, the completed flag of each of its
\* ledger entries never changes again: no later logProgress,
\* markCompleteToday or toggleProgress request, by any user, alters an entry
\* of an inactive habit.
C26_DeletedHabitLedgerFrozen == [][C26_FrozenStep]_vars

\* C27: soft deletion is permanent: once deleteHabit has succeeded for a
\* habit, no later request makes that habit's isActive true again.
C27_DeletionPermanent ==
  \A h \in HabitIds : Deleted(h) => ~habits[h].isActive

\* C28: no active group's habits list contains an inactive habit.
C28_GroupsListActiveHabits ==
  \A g \in GroupIds :
    (groups[g].exists /\ groups[g].isActive)
    => \A i \in 1..Len(groups[g].habits) : habits[groups[g].habits[i]].isActive

\* ------------------------------------------------- claims on membership
\* the number of times g appears in the joinedGroups of u
TimesJoined(u, g) ==
  Cardinality({i \in 1..Len(users[u].joinedGroups) : users[u].joinedGroups[i] = g})

\* C29: after any sequence of completed createGroup, joinGroup, leaveGroup and
\* deleteGroup requests, for every user u and active group g, g is in
\* u.joinedGroups exactly when u is in g.members, and g appears in
\* u.joinedGroups at most once.
C29_JoinedGroupsMatchMembers ==
  \A u \in Users, g \in GroupIds :
    (groups[g].exists /\ groups[g].isActive)
    => /\ TimesJoined(u, g) <= 1
       /\ TimesJoined(u, g) = 1 <=> u \in Range(groups[g].members)

\* C29 witness: a user has joined the group of another user and left it again
C29_Witness ==
  /\ res.op = "leaveGroup" /\ res.status = 200
  /\ groups[res.target].isActive
  /\ res.user \notin Range(groups[res.target].members)
  /\ users[res.user].joinedGroups = <<>>
  /\ \E u \in Users : users[u].joinedGroups = <<res.target>>

\* ---------------------------------------- claims on the streak calculators
\* C30: the two streak calculators agree: for every set of days D, the
\* currentStreak of a habit with completionDates = D is the value of
\* Progress.getCurrentStreak on a ledger with exactly one completed entry for
\* each day of D.
C30_StreakCalculatorsAgree ==
  /\ (res.op = "getHabits" /\ "h1" \in DOMAIN res.streak)
     => res.streak["h1"] = GetCurrentStreak(progress, res.user, "h1", now)
  /\ (res.op = "getHabitProgress" /\ res.status = 200 /\ res.user = "u1")
     => res.streak["h1"] = CurrentStreak(habits["h1"], now)

====
